---- MODULE Spec2Model ----
(* Storage-access layer of geotrace/model: the Users, Devices, Events and   *)
(* Places repositories over one MongoDB database (mgo driver).  Each        *)
(* collection is a function from the primary key (_id) to the stored        *)
(* document; every repository method is one action that runs its single     *)
(* store primitive (Find/One, Find/All, Insert, UpdateId, Remove) and       *)
(* records its arguments and its results in "last".                         *)
EXTENDS Integers, Sequences, FiniteSets, TLC

(* ------------------------------------------------------------------------ *)
(* Bounds of the model                                                      *)
(* ------------------------------------------------------------------------ *)
NumDevices == 2
NumEvents == 2
NumPlaces == 2
NumUsers == 2
(* Longest batch passed to Events.Create.                                   *)
MaxBatch == 2
(* Most session copies left open before the model stops leaking more.       *)
MaxSessions == 1

(* Group (tenant) identifiers a caller is scoped to.  They are generated by *)
(* the server and are never empty; "" is the zero value of an entity's      *)
(* GroupID field.                                                           *)
Groups == {"g1", "g2"}
NoGroup == ""
EntityGroups == Groups \cup {NoGroup}
(* The GroupID a Device or Place object carries into Create or Update,      *)
(* where the argument replaces it: none, or "g2" (the group of the call or  *)
(* the other one).                                                          *)
CarriedGroups == {NoGroup, "g2"}

(* Primary keys.  0 stands for the empty string id (the zero ObjectId for   *)
(* events); the keys a collection can hold are 1..Num.                      *)
EmptyId == 0
DeviceIds == 1..NumDevices
EventIds == 1..NumEvents
PlaceIds == 1..NumPlaces
UserIds == 1..NumUsers

Names == {"n1"}
Types == {"t1"}
(* Password digests: the empty digest (nil) and one bcrypt hash.            *)
NoPassword == ""
Passwords == {NoPassword, "h1"}

(* Error values returned by the repository methods.                         *)
Nil == "nil"
ErrNotFound == "not found"
ErrBadObjectId == "bad object id"
ErrBadPlaceData == "bad place data"
ErrDup == "E11000 duplicate key"

(* No document stored under a key / a nil result.                           *)
None == [none |-> TRUE]

(* devices, events, places, users: the four collections (part_000:39-44).   *)
(* sessions: session copies obtained with session.Copy() and not yet closed. *)
(* view: the repository types the caller converted the handle to            *)
(* (part_000:31-36); a behaviour calls the methods of these types only.     *)
(* last: the latest method call, its arguments and what it returned.        *)
VARIABLES devices, events, places, users, sessions, view, last
vars == <<devices, events, places, users, sessions, view, last>>

(* ------------------------------------------------------------------------ *)
(* Store primitives (mgo.Collection)                                        *)
(* ------------------------------------------------------------------------ *)
Has(coll, id) == id \in DOMAIN coll /\ coll[id] # None

(* An insert into a collection whose key is unique per group only: a        *)
(* document of another group under the _id does not stop it.                *)
InsertPerGroup(coll, id, doc) ==
    IF Has(coll, id) /\ coll[id].groupId = doc.groupId
    THEN [err |-> ErrDup, coll |-> coll]
    ELSE [err |-> Nil, coll |-> [coll EXCEPT ![id] = doc]]

(* An insert that replaces the document already stored under the _id.       *)
InsertOrReplace(coll, id, doc) ==
    [err |-> Nil, coll |-> [coll EXCEPT ![id] = doc]]

(* Collection.Insert of one document: duplicate-key error when the _id is   *)
(* already present, whatever the other fields of the stored document are.   *)
Insert(coll, id, doc) ==
    IF Has(coll, id)
    THEN [err |-> ErrDup, coll |-> coll]
    ELSE [err |-> Nil, coll |-> [coll EXCEPT ![id] = doc]]

(* Collection.UpsertId: inserts the document when the _id is not stored.    *)
UpsertId(coll, id, doc) ==
    IF id \in DOMAIN coll
    THEN [err |-> Nil, coll |-> [coll EXCEPT ![id] = doc]]
    ELSE [err |-> ErrNotFound, coll |-> coll]

(* An update that also selects on the group the new document carries:       *)
(* Update(bson.M{"_id": id, "groupId": doc.groupId}, doc).                   *)
UpdateIdInGroup(coll, id, doc) ==
    IF Has(coll, id) /\ coll[id].groupId = doc.groupId
    THEN [err |-> Nil, coll |-> [coll EXCEPT ![id] = doc]]
    ELSE [err |-> ErrNotFound, coll |-> coll]

(* Collection.UpdateId: replaces the whole document stored under the _id,   *)
(* matching on the _id alone; ErrNotFound when there is none (no upsert).   *)
UpdateId(coll, id, doc) ==
    IF Has(coll, id)
    THEN [err |-> Nil, coll |-> [coll EXCEPT ![id] = doc]]
    ELSE [err |-> ErrNotFound, coll |-> coll]

(* Collection.RemoveId, and Collection.Remove once its selector has matched *)
(* the document with that _id: removes that one document, ErrNotFound when  *)
(* there is none.                                                           *)
RemoveId(coll, id) ==
    IF Has(coll, id)
    THEN [err |-> Nil, coll |-> [coll EXCEPT ![id] = None]]
    ELSE [err |-> ErrNotFound, coll |-> coll]

(* The groupId of the document stored under an id, for "last".              *)
NoRecord == "no record"
StoredGroup(coll, id) == IF Has(coll, id) THEN coll[id].groupId ELSE NoRecord

(* What a method leaves in "last": its name, the group, device id and id it *)
(* was called with, the GroupID its entity argument carried on entry (the   *)
(* write methods overwrite it), the error and the value it returned; "was"  *)
(* is the group the record it addressed was stored under before the call.   *)
Result(op, groupId, deviceId, id, carried, err, ret) ==
    [op |-> op, group |-> groupId, device |-> deviceId, id |-> id,
     carried |-> carried, was |-> NoRecord, err |-> err, ret |-> ret]

(* ------------------------------------------------------------------------ *)
(* Devices                                                                  *)
(* ------------------------------------------------------------------------ *)
ZeroDevice ==
    [id |-> EmptyId, groupId |-> NoGroup, name |-> "", type |-> "",
     password |-> NoPassword]

(* The Device objects a caller can pass in.                                 *)
DeviceInputs ==
    [id : DeviceIds \cup {EmptyId}, groupId : CarriedGroups, name : Names,
     type : Types, password : Passwords]

(* bson encoding of a Device: every field but _id is the document body.     *)
DeviceDoc(device) ==
    [groupId |-> device.groupId, name |-> device.name, type |-> device.type,
     password |-> device.password]

(* Select(bson.M{"groupId": 0, "password": 0}) decoded into a new Device.   *)
DeviceProjection(id, doc) ==
    [id |-> id, groupId |-> NoGroup, name |-> doc.name, type |-> doc.type,
     password |-> NoPassword]

(* The query with the group dropped: bson.M{"_id": id} alone.               *)
DeviceMatchAnyGroup(doc, groupId) == TRUE

(* The group part of the query of Devices.Get, List and Delete:             *)
(* bson.M{"groupId": groupId}.                                              *)
DeviceMatch(doc, groupId) == doc.groupId = groupId

(* Devices.Get on a collection: Find(_id, groupId).Select(...).One(device). *)
DevicesGetOn(coll, groupId, id) ==
    IF Has(coll, id) /\ DeviceMatch(coll[id], groupId)
    THEN [err |-> Nil, device |-> DeviceProjection(id, coll[id])]
    ELSE [err |-> ErrNotFound, device |-> ZeroDevice]

(* Devices.List on a collection: make([]*Device, 0), then All(&devices).    *)
DevicesListOn(coll, groupId) ==
    {DeviceProjection(id, coll[id]) :
        id \in {i \in DOMAIN coll : Has(coll, i) /\ DeviceMatch(coll[i], groupId)}}

(* Select(bson.M{"groupId": 0}) decoded into a new Device: the projection   *)
(* of DB.DeviceList, which drops the group and nothing else.                *)
DeviceListProjection(id, doc) ==
    [id |-> id, groupId |-> NoGroup, name |-> doc.name, type |-> doc.type,
     password |-> doc.password]

(* DB.DeviceList on a collection.                                           *)
DBDeviceListOn(coll, groupId) ==
    {DeviceListProjection(id, coll[id]) :
        id \in {i \in DOMAIN coll : Has(coll, i) /\ DeviceMatch(coll[i], groupId)}}

(* Devices.Login on a collection: FindId(id), no projection.                *)
DevicesLoginOn(coll, id) ==
    IF Has(coll, id)
    THEN [err |-> Nil,
          device |-> [id |-> id, groupId |-> coll[id].groupId,
                      name |-> coll[id].name, type |-> coll[id].type,
                      password |-> coll[id].password]]
    ELSE [err |-> ErrNotFound, device |-> ZeroDevice]

(* The assignment left out: the GroupID of the object is stored as it came. *)
DeviceNotScoped(groupId, device) == device

(* device.GroupID = groupId, in Create and in Update.                       *)
DeviceScoped(groupId, device) == [device EXCEPT !.groupId = groupId]

(* The delete with the group left out of the selector: RemoveId(id).        *)
DevicesDeleteAnyGroup(coll, groupId, id) == RemoveId(coll, id)

(* Devices.Delete on a collection: Remove(bson.M{"_id": id, "groupId": g}). *)
DevicesDeleteOn(coll, groupId, id) ==
    IF Has(coll, id) /\ DeviceMatch(coll[id], groupId)
    THEN RemoveId(coll, id)
    ELSE [err |-> ErrNotFound, coll |-> coll]

DevicesGet(groupId, id) ==
    LET r == DevicesGetOn(devices, groupId, id) IN
    /\ last' = Result("Devices.Get", groupId, EmptyId, id, NoGroup, r.err, r.device)
    /\ UNCHANGED <<devices, events, places, users, sessions, view>>

DevicesList(groupId) ==
    /\ last' = Result("Devices.List", groupId, EmptyId, EmptyId, NoGroup, Nil,
                      DevicesListOn(devices, groupId))
    /\ UNCHANGED <<devices, events, places, users, sessions, view>>

DBDeviceList(groupId) ==
    /\ last' = Result("DB.DeviceList", groupId, EmptyId, EmptyId, NoGroup, Nil,
                      DBDeviceListOn(devices, groupId))
    /\ UNCHANGED <<devices, events, places, users, sessions, view>>

DevicesLogin(id) ==
    LET r == DevicesLoginOn(devices, id) IN
    /\ last' = Result("Devices.Login", NoGroup, EmptyId, id, NoGroup, r.err, r.device)
    /\ UNCHANGED <<devices, events, places, users, sessions, view>>

(* uid.New() is an identifier no stored device has.                         *)
DevicesCreate(groupId, device) ==
    \E newId \in DeviceIds :
        /\ IF device.id = EmptyId THEN ~Has(devices, newId) ELSE newId = device.id
        /\ LET d == DeviceScoped(groupId, [device EXCEPT !.id = newId])
               r == Insert(devices, d.id, DeviceDoc(d))
           IN /\ devices' = r.coll
              /\ last' = [Result("Devices.Create", groupId, EmptyId, d.id,
                                 device.groupId, r.err, None)
                             EXCEPT !.was = StoredGroup(devices, d.id)]
        /\ UNCHANGED <<events, places, users, sessions, view>>

DevicesUpdate(groupId, device) ==
    LET d == DeviceScoped(groupId, device)
        r == UpdateId(devices, d.id, DeviceDoc(d))
    IN /\ devices' = r.coll
       /\ last' = [Result("Devices.Update", groupId, EmptyId, d.id,
                          device.groupId, r.err, None)
                      EXCEPT !.was = StoredGroup(devices, d.id)]
       /\ UNCHANGED <<events, places, users, sessions, view>>

DevicesDelete(groupId, id) ==
    LET r == DevicesDeleteOn(devices, groupId, id) IN
    /\ devices' = r.coll
    /\ last' = [Result("Devices.Delete", groupId, EmptyId, id, NoGroup, r.err, None)
                   EXCEPT !.was = StoredGroup(devices, id)]
    /\ UNCHANGED <<events, places, users, sessions, view>>

DevicesNext(inputs) ==
    \/ \E g \in Groups, id \in DeviceIds \cup {EmptyId} : DevicesGet(g, id)
    \/ \E g \in Groups : DevicesList(g)
    \/ \E g \in Groups : DBDeviceList(g)
    \/ \E id \in DeviceIds \cup {EmptyId} : DevicesLogin(id)
    \/ \E g \in Groups, d \in inputs : DevicesCreate(g, d)
    \/ \E g \in Groups, d \in inputs : DevicesUpdate(g, d)
    \/ \E g \in Groups, id \in DeviceIds \cup {EmptyId} : DevicesDelete(g, id)


(* ------------------------------------------------------------------------ *)
(* Events                                                                   *)
(* ------------------------------------------------------------------------ *)
(* Event.Time: 0 is the zero time.Time (time omitted), 1 a time the caller  *)
(* supplied.                                                                *)
ZeroTime == 0
Times == {ZeroTime, 1}

ZeroEvent ==
    [id |-> EmptyId, deviceId |-> EmptyId, groupId |-> NoGroup, time |-> ZeroTime]

(* What the Event objects of one call carry when they are passed in: the   *)
(* DeviceID, the GroupID and the Time (the same for the items of a batch):  *)
(* a new event with nothing set, or one read back earlier with all set.     *)
EventTemplates == {<<EmptyId, NoGroup, ZeroTime>>, <<1, "g2", 1>>}

(* The Event objects a caller can pass in; id 0 is an invalid ObjectId.     *)
EventInputs(tmpl) ==
    {[id |-> i, deviceId |-> tmpl[1], groupId |-> tmpl[2], time |-> tmpl[3]] :
        i \in EventIds \cup {EmptyId}}

(* The variadic argument of Events.Create.                                  *)
EventBatches(tmpl) ==
    UNION {[1..n -> EventInputs(tmpl)] : n \in 1..MaxBatch}

(* bson encoding of an Event: the fields "deviceId", "groupId" and "time".  *)
EventDoc(event) ==
    [deviceId |-> event.deviceId, groupId |-> event.groupId, time |-> event.time]

(* Select(bson.M{"groupId": 0, "deviceId": 0}) decoded into a new Event.    *)
EventProjection(id, doc) ==
    [id |-> id, deviceId |-> EmptyId, groupId |-> NoGroup, time |-> doc.time]

(* bson.IsObjectIdHex: the id strings are named by the ObjectId they spell, *)
(* 0 names a string that is no 24-digit hex number.                         *)
IsObjectIdHex(id) == id # EmptyId

(* bson.ObjectId.Valid.                                                     *)
Valid(id) == id # EmptyId

(* The query with the group looked up from the device instead of the event. *)
EventMatchByDevice(doc, groupId, deviceId) ==
    doc.deviceId = deviceId /\ StoredGroup(devices, deviceId) = groupId

(* The query of Events.Get and Events.List:                                 *)
(* bson.M{"groupId": groupId, "deviceId": deviceId}.                        *)
EventMatch(doc, groupId, deviceId) ==
    doc.groupId = groupId /\ doc.deviceId = deviceId

(* Events.Get on a collection.  A malformed id returns ErrBadObjectId with  *)
(* a nil event, before the query and before session.Close().                *)
EventsGetOn(coll, groupId, deviceId, id) ==
    IF ~IsObjectIdHex(id)
    THEN [err |-> ErrBadObjectId, event |-> None]
    ELSE IF Has(coll, id) /\ EventMatch(coll[id], groupId, deviceId)
         THEN [err |-> Nil, event |-> EventProjection(id, coll[id])]
         ELSE [err |-> ErrNotFound, event |-> ZeroEvent]

(* The listing with the device left out of the query: bson.M{"groupId": g}. *)
EventsListAnyDevice(coll, groupId, deviceId) ==
    {EventProjection(id, coll[id]) :
        id \in {i \in DOMAIN coll : Has(coll, i) /\ coll[i].groupId = groupId}}

(* Events.List on a collection.                                             *)
EventsListOn(coll, groupId, deviceId) ==
    {EventProjection(id, coll[id]) :
        id \in {i \in DOMAIN coll :
                    Has(coll, i) /\ EventMatch(coll[i], groupId, deviceId)}}

(* Events.Devices on a collection: Find(groupId).Distinct("deviceID"): the  *)
(* values of the field named "deviceID" in the matching documents.          *)
EventsDevicesOn(coll, groupId) ==
    {coll[i].deviceID :
        i \in {j \in DOMAIN coll : /\ Has(coll, j)
                                   /\ coll[j].groupId = groupId
                                   /\ "deviceID" \in DOMAIN coll[j]}}

(* The loop taking the group from the stored device when there is one.      *)
EventScopedByDevice(groupId, deviceId, event, id) ==
    [event EXCEPT !.id = id, !.deviceId = deviceId,
                  !.groupId = IF Has(devices, deviceId)
                              THEN devices[deviceId].groupId
                              ELSE groupId]

(* The loop of Events.Create on one item, given the id it ends up with.     *)
EventScoped(groupId, deviceId, event, id) ==
    [event EXCEPT !.id = id, !.groupId = groupId, !.deviceId = deviceId]

(* The loop with an id generator that may repeat an id: an invalid id is    *)
(* replaced by any id.                                                      *)
AssignedIdsNotFresh(coll, batch) ==
    {ids \in [DOMAIN batch -> EventIds] :
        \A i \in DOMAIN batch : Valid(batch[i].id) => ids[i] = batch[i].id}

(* The ids the items of a batch have after the loop of Events.Create: a     *)
(* valid id is kept, an invalid one is replaced by bson.NewObjectId(), which *)
(* differs from every id stored, supplied or generated before.              *)
AssignedIds(coll, batch) ==
    {ids \in [DOMAIN batch -> EventIds] :
        \A i \in DOMAIN batch :
            IF Valid(batch[i].id)
            THEN ids[i] = batch[i].id
            ELSE /\ ~Has(coll, ids[i])
                 /\ \A j \in DOMAIN batch \ {i} :
                        ids[j] # ids[i] /\ batch[j].id # ids[i]}

(* Collection.Insert(objs...): the documents are inserted in order and the  *)
(* first duplicate key stops the batch; what was inserted before it stays.  *)
RECURSIVE InsertAll(_, _)
InsertAll(coll, objs) ==
    IF objs = <<>>
    THEN [err |-> Nil, coll |-> coll]
    ELSE LET r == Insert(coll, Head(objs).id, EventDoc(Head(objs)))
         IN IF r.err # Nil THEN r ELSE InsertAll(r.coll, Tail(objs))

(* Events.Update: UpdateId(event.ID, event) after the scope is overwritten. *)
EventsUpdateOn(coll, groupId, deviceId, event) ==
    UpdateId(coll, event.id, EventDoc(EventScoped(groupId, deviceId, event, event.id)))

(* Events.Delete: Remove(bson.M{"_id": id, ...}) with id the string it was  *)
(* given; a stored _id is an ObjectId, and bson values of different types   *)
(* are never equal.                                                         *)
BsonObjectId(id) == <<"ObjectId", id>>
BsonString(id) == <<"string", id>>

EventsDeleteOn(coll, groupId, deviceId, id) ==
    IF \E i \in DOMAIN coll : /\ Has(coll, i)
                              /\ BsonObjectId(i) = BsonString(id)
                              /\ EventMatch(coll[i], groupId, deviceId)
    THEN RemoveId(coll, id)
    ELSE [err |-> ErrNotFound, coll |-> coll]

EventsGet(groupId, deviceId, id) ==
    LET r == EventsGetOn(events, groupId, deviceId, id) IN
    /\ r.err = ErrBadObjectId => sessions < MaxSessions
    /\ sessions' = IF r.err = ErrBadObjectId THEN sessions + 1 ELSE sessions
    /\ last' = Result("Events.Get", groupId, deviceId, id, NoGroup, r.err, r.event)
    /\ UNCHANGED <<devices, events, places, users, view>>

EventsList(groupId, deviceId) ==
    /\ last' = Result("Events.List", groupId, deviceId, EmptyId, NoGroup, Nil,
                      EventsListOn(events, groupId, deviceId))
    /\ UNCHANGED <<devices, events, places, users, sessions, view>>

EventsDevices(groupId) ==
    /\ last' = Result("Events.Devices", groupId, EmptyId, EmptyId, NoGroup, Nil,
                      EventsDevicesOn(events, groupId))
    /\ UNCHANGED <<devices, events, places, users, sessions, view>>

EventsCreate(groupId, deviceId, batch) ==
    \E ids \in AssignedIds(events, batch) :
        LET objs == [i \in DOMAIN batch |->
                        EventScoped(groupId, deviceId, batch[i], ids[i])]
            r == InsertAll(events, objs)
        IN /\ events' = r.coll
           /\ last' = Result("Events.Create", groupId, deviceId, EmptyId,
                             batch[1].groupId, r.err, ids)
           /\ UNCHANGED <<devices, places, users, sessions, view>>

EventsUpdate(groupId, deviceId, event) ==
    LET r == EventsUpdateOn(events, groupId, deviceId, event) IN
    /\ events' = r.coll
    /\ last' = [Result("Events.Update", groupId, deviceId, event.id,
                       event.groupId, r.err, None)
                   EXCEPT !.was = StoredGroup(events, event.id)]
    /\ UNCHANGED <<devices, places, users, sessions, view>>

EventsDelete(groupId, deviceId, id) ==
    LET r == EventsDeleteOn(events, groupId, deviceId, id) IN
    /\ events' = r.coll
    /\ last' = [Result("Events.Delete", groupId, deviceId, id, NoGroup, r.err, None)
                   EXCEPT !.was = StoredGroup(events, id)]
    /\ UNCHANGED <<devices, places, users, sessions, view>>

EventsNext(templates) ==
    \/ \E g \in Groups, d \in DeviceIds, id \in EventIds \cup {EmptyId} :
          EventsGet(g, d, id)
    \/ \E g \in Groups, d \in DeviceIds : EventsList(g, d)
    \/ \E g \in Groups : EventsDevices(g)
    \/ \E g \in Groups, d \in DeviceIds, c \in templates :
          \E batch \in EventBatches(c) : EventsCreate(g, d, batch)
    \/ \E g \in Groups, d \in DeviceIds, c \in templates :
          \E e \in EventInputs(c) : EventsUpdate(g, d, e)
    \/ \E g \in Groups, d \in DeviceIds, id \in EventIds \cup {EmptyId} :
          EventsDelete(g, d, id)

(* ------------------------------------------------------------------------ *)
(* Places                                                                   *)
(* ------------------------------------------------------------------------ *)
(* geo.Circle (centre and radius) and geo.Polygon (a closed ring of points) *)
(* on an integer grid; NoShape is the nil pointer, NoGeo the nil interface. *)
NoShape == [nil |-> "shape"]
NoGeo == [nil |-> "geo"]
Circles == {[center |-> <<3, 1>>, radius |-> 2]}
Polygons == {[ring |-> << <<0, 0>>, <<2, 0>>, <<0, 2>>, <<0, 0>> >>]}

(* geo.Polygon.Geo(): the GeoJSON object of the polygon, ring unchanged.    *)
PolygonGeo(polygon) == [type |-> "Polygon", coordinates |-> <<polygon.ring>>]

(* geo.Circle.Geo(): the GeoJSON polygon that approximates the circle, here *)
(* by the ring through its four compass points.                             *)
CircleGeo(circle) ==
    LET x == circle.center[1]
        y == circle.center[2]
        r == circle.radius
    IN PolygonGeo([ring |-> << <<x + r, y>>, <<x, y + r>>, <<x - r, y>>,
                               <<x, y - r>>, <<x + r, y>> >>])

ZeroPlace ==
    [id |-> EmptyId, groupId |-> NoGroup, name |-> "", circle |-> NoShape,
     polygon |-> NoShape, geo |-> NoGeo]

(* The Place objects a caller can pass in.                                  *)
PlaceInputs ==
    [id : PlaceIds \cup {EmptyId}, groupId : CarriedGroups, name : Names,
     circle : Circles \cup {NoShape}, polygon : Polygons \cup {NoShape},
     geo : {NoGeo}]

(* prepare without the final else: a place with no shape passes unchanged.  *)
prepareLenient(p) ==
    IF p.circle # NoShape
    THEN [err |-> Nil,
          place |-> [p EXCEPT !.polygon = NoShape, !.geo = CircleGeo(p.circle)]]
    ELSE IF p.polygon # NoShape
         THEN [err |-> Nil,
               place |-> [p EXCEPT !.circle = NoShape, !.geo = PolygonGeo(p.polygon)]]
         ELSE [err |-> Nil, place |-> p]

(* prepare without "p.Polygon = nil": a circle leaves the polygon in place. *)
prepareKeepsPolygon(p) ==
    IF p.circle # NoShape
    THEN [err |-> Nil, place |-> [p EXCEPT !.geo = CircleGeo(p.circle)]]
    ELSE IF p.polygon # NoShape
         THEN [err |-> Nil,
               place |-> [p EXCEPT !.circle = NoShape, !.geo = PolygonGeo(p.polygon)]]
         ELSE [err |-> ErrBadPlaceData, place |-> p]

(* prepare with the two tests in the other order: the polygon has priority. *)
preparePolygonFirst(p) ==
    IF p.polygon # NoShape
    THEN [err |-> Nil,
          place |-> [p EXCEPT !.circle = NoShape, !.geo = PolygonGeo(p.polygon)]]
    ELSE IF p.circle # NoShape
         THEN [err |-> Nil,
               place |-> [p EXCEPT !.polygon = NoShape, !.geo = CircleGeo(p.circle)]]
         ELSE [err |-> ErrBadPlaceData, place |-> p]

(* Place.prepare: the circle has priority over the polygon.                 *)
prepare(p) ==
    IF p.circle # NoShape
    THEN [err |-> Nil,
          place |-> [p EXCEPT !.polygon = NoShape, !.geo = CircleGeo(p.circle)]]
    ELSE IF p.polygon # NoShape
         THEN [err |-> Nil,
               place |-> [p EXCEPT !.circle = NoShape, !.geo = PolygonGeo(p.polygon)]]
         ELSE [err |-> ErrBadPlaceData, place |-> p]

(* bson encoding of a Place.                                                *)
PlaceDoc(place) ==
    [groupId |-> place.groupId, name |-> place.name, circle |-> place.circle,
     polygon |-> place.polygon, geo |-> place.geo]

(* Select(bson.M{"groupId": 0, "geo": 0}) decoded into a new Place.         *)
PlaceProjection(id, doc) ==
    [id |-> id, groupId |-> NoGroup, name |-> doc.name, circle |-> doc.circle,
     polygon |-> doc.polygon, geo |-> NoGeo]

(* The group part of the query of Places.Get, List and Delete.              *)
PlaceMatch(doc, groupId) == doc.groupId = groupId

(* place.GroupID = groupId, in Create and in Update.                        *)
PlaceScoped(groupId, place) == [place EXCEPT !.groupId = groupId]

(* Places.Get on a collection.                                              *)
PlacesGetOn(coll, groupId, id) ==
    IF Has(coll, id) /\ PlaceMatch(coll[id], groupId)
    THEN [err |-> Nil, place |-> PlaceProjection(id, coll[id])]
    ELSE [err |-> ErrNotFound, place |-> ZeroPlace]

(* Places.List on a collection.                                             *)
PlacesListOn(coll, groupId) ==
    {PlaceProjection(id, coll[id]) :
        id \in {i \in DOMAIN coll : Has(coll, i) /\ PlaceMatch(coll[i], groupId)}}

(* Places.Delete on a collection.                                           *)
PlacesDeleteOn(coll, groupId, id) ==
    IF Has(coll, id) /\ PlaceMatch(coll[id], groupId)
    THEN RemoveId(coll, id)
    ELSE [err |-> ErrNotFound, coll |-> coll]

PlacesGet(groupId, id) ==
    LET r == PlacesGetOn(places, groupId, id) IN
    /\ last' = Result("Places.Get", groupId, EmptyId, id, NoGroup, r.err, r.place)
    /\ UNCHANGED <<devices, events, places, users, sessions, view>>

PlacesList(groupId) ==
    /\ last' = Result("Places.List", groupId, EmptyId, EmptyId, NoGroup, Nil,
                      PlacesListOn(places, groupId))
    /\ UNCHANGED <<devices, events, places, users, sessions, view>>

(* The circle and the polygon a Place was passed in with, for "last".       *)
Shapes(place) == [circle |-> place.circle, polygon |-> place.polygon]

(* Places.Create: prepare, uid.New() for an empty id, the scope, Insert.    *)
PlacesCreate(groupId, place) ==
    LET pr == prepare(place) IN
    IF pr.err # Nil
    THEN /\ last' = [Result("Places.Create", groupId, EmptyId, place.id,
                            place.groupId, pr.err, Shapes(place))
                        EXCEPT !.was = StoredGroup(places, place.id)]
         /\ UNCHANGED <<devices, events, places, users, sessions, view>>
    ELSE \E newId \in PlaceIds :
            /\ IF place.id = EmptyId THEN ~Has(places, newId) ELSE newId = place.id
            /\ LET p == PlaceScoped(groupId, [pr.place EXCEPT !.id = newId])
                   r == Insert(places, p.id, PlaceDoc(p))
               IN /\ places' = r.coll
                  /\ last' = [Result("Places.Create", groupId, EmptyId, p.id,
                                     place.groupId, r.err, Shapes(place))
                                 EXCEPT !.was = StoredGroup(places, p.id)]
            /\ UNCHANGED <<devices, events, users, sessions, view>>

(* Places.Update: prepare, the scope, UpdateId(place.ID, place).            *)
PlacesUpdate(groupId, place) ==
    LET pr == prepare(place) IN
    IF pr.err # Nil
    THEN /\ last' = [Result("Places.Update", groupId, EmptyId, place.id,
                            place.groupId, pr.err, Shapes(place))
                        EXCEPT !.was = StoredGroup(places, place.id)]
         /\ UNCHANGED <<devices, events, places, users, sessions, view>>
    ELSE LET p == PlaceScoped(groupId, pr.place)
             r == UpdateId(places, p.id, PlaceDoc(p))
         IN /\ places' = r.coll
            /\ last' = [Result("Places.Update", groupId, EmptyId, p.id,
                               place.groupId, r.err, Shapes(place))
                           EXCEPT !.was = StoredGroup(places, p.id)]
            /\ UNCHANGED <<devices, events, users, sessions, view>>

PlacesDelete(groupId, id) ==
    LET r == PlacesDeleteOn(places, groupId, id) IN
    /\ places' = r.coll
    /\ last' = [Result("Places.Delete", groupId, EmptyId, id, NoGroup, r.err, None)
                   EXCEPT !.was = StoredGroup(places, id)]
    /\ UNCHANGED <<devices, events, users, sessions, view>>

PlacesNext(inputs) ==
    \/ \E g \in Groups, id \in PlaceIds \cup {EmptyId} : PlacesGet(g, id)
    \/ \E g \in Groups : PlacesList(g)
    \/ \E g \in Groups, p \in inputs : PlacesCreate(g, p)
    \/ \E g \in Groups, p \in inputs : PlacesUpdate(g, p)
    \/ \E g \in Groups, id \in PlaceIds \cup {EmptyId} : PlacesDelete(g, id)

(* ------------------------------------------------------------------------ *)
(* Users                                                                    *)
(* ------------------------------------------------------------------------ *)
(* The User objects a caller can pass in.                                   *)
UserInputs ==
    [login : UserIds \cup {EmptyId}, groupId : EntityGroups, name : Names,
     password : Passwords]

(* The encoding without the group.                                          *)
UserDocNoGroup(user) ==
    [groupId |-> NoGroup, name |-> user.name, password |-> user.password]

(* bson encoding of a User: every field but _id (the login).                *)
UserDoc(user) ==
    [groupId |-> user.groupId, name |-> user.name, password |-> user.password]

(* Select(bson.M{"password": 0, "groupId": 0}) decoded into a User.         *)
UserProjection(login, doc) ==
    [login |-> login, groupId |-> NoGroup, name |-> doc.name,
     password |-> NoPassword]

(* The login through the projection of List: password and group dropped.   *)
UsersLoginProjected(coll, login) ==
    IF Has(coll, login)
    THEN [err |-> Nil, user |-> UserProjection(login, coll[login])]
    ELSE [err |-> ErrNotFound, user |-> None]

(* Users.Login on a collection: FindId(userID).One(&user); user stays nil   *)
(* when nothing is found.                                                   *)
UsersLoginOn(coll, login) ==
    IF Has(coll, login)
    THEN [err |-> Nil,
          user |-> [login |-> login, groupId |-> coll[login].groupId,
                    name |-> coll[login].name, password |-> coll[login].password]]
    ELSE [err |-> ErrNotFound, user |-> None]

(* Users.List on a collection: Find(bson.M{"groupId": groupID}).            *)
UsersListOn(coll, groupId) ==
    {UserProjection(id, coll[id]) :
        id \in {i \in DOMAIN coll : Has(coll, i) /\ coll[i].groupId = groupId}}

(* Users.Create on a collection: Insert(user); the method has no group      *)
(* parameter, the document is the User as passed in.                        *)
UsersCreateOn(coll, user) == Insert(coll, user.login, UserDoc(user))

(* Users.Update on a collection: UpdateId(user.Login, user).                *)
UsersUpdateOn(coll, user) == UpdateId(coll, user.login, UserDoc(user))

(* Users.Delete on a collection: RemoveId(login).                           *)
UsersDeleteOn(coll, login) == RemoveId(coll, login)

UsersLogin(login) ==
    LET r == UsersLoginOn(users, login) IN
    /\ last' = Result("Users.Login", NoGroup, EmptyId, login, NoGroup, r.err, r.user)
    /\ UNCHANGED <<devices, events, places, users, sessions, view>>

UsersList(groupId) ==
    /\ last' = Result("Users.List", groupId, EmptyId, EmptyId, NoGroup, Nil,
                      UsersListOn(users, groupId))
    /\ UNCHANGED <<devices, events, places, users, sessions, view>>

(* caller is the group the calling code is authorised for; Users.Create,    *)
(* Update and Delete have no parameter for it and do not use it.            *)
UsersCreate(caller, user) ==
    \E newId \in UserIds :
        /\ IF user.login = EmptyId THEN ~Has(users, newId) ELSE newId = user.login
        /\ LET r == UsersCreateOn(users, [user EXCEPT !.login = newId])
           IN /\ users' = r.coll
              /\ last' = [Result("Users.Create", caller, EmptyId, newId,
                                 user.groupId, r.err, None)
                             EXCEPT !.was = StoredGroup(users, newId)]
        /\ UNCHANGED <<devices, events, places, sessions, view>>

UsersUpdate(caller, user) ==
    LET r == UsersUpdateOn(users, user) IN
    /\ users' = r.coll
    /\ last' = [Result("Users.Update", caller, EmptyId, user.login,
                       user.groupId, r.err, None)
                   EXCEPT !.was = StoredGroup(users, user.login)]
    /\ UNCHANGED <<devices, events, places, sessions, view>>

UsersDelete(caller, login) ==
    LET r == UsersDeleteOn(users, login) IN
    /\ users' = r.coll
    /\ last' = [Result("Users.Delete", caller, EmptyId, login, NoGroup, r.err, None)
                   EXCEPT !.was = StoredGroup(users, login)]
    /\ UNCHANGED <<devices, events, places, sessions, view>>

UsersNext(inputs) ==
    \/ \E id \in UserIds \cup {EmptyId} : UsersLogin(id)
    \/ \E g \in Groups : UsersList(g)
    \/ \E g \in Groups, u \in inputs : UsersCreate(g, u)
    \/ \E g \in Groups, u \in inputs : UsersUpdate(g, u)
    \/ \E g \in Groups, id \in UserIds \cup {EmptyId} : UsersDelete(g, id)

(* ------------------------------------------------------------------------ *)
(* Password digests (bcrypt)                                                *)
(* ------------------------------------------------------------------------ *)
(* A plaintext is the sequence of its bytes.  bcrypt keys Blowfish with the *)
(* password followed by a NUL byte, read cyclically, and ExpandKey consumes *)
(* 18 words of it: 72 bytes.                                                *)
BcryptKeyBytes == 72

(* "secret1", "wrong", "a", "a" NUL "a", 72 times "a" and that followed by  *)
(* "x".                                                                     *)
Secret1 == <<115, 101, 99, 114, 101, 116, 49>>
Wrong == <<119, 114, 111, 110, 103>>
LetterA == <<97>>
LetterANulA == <<97, 0, 97>>
FullKey == [i \in 1..BcryptKeyBytes |-> 97]
FullKeyX == FullKey \o <<120>>
Plaintexts == {Secret1, Wrong, LetterA, LetterANulA, FullKey, FullKeyX}

(* The random salts bcrypt.GenerateFromPassword can draw.                   *)
Salts == {1, 2}

(* The bytes of the key that reach the cipher.                              *)
KeyStream(password) ==
    LET ckey == password \o <<0>>
    IN [i \in 1..BcryptKeyBytes |-> ckey[((i - 1) % Len(ckey)) + 1]]

(* The bcrypt hash as a one-to-one function of the salt and the key bytes.  *)
Bcrypt(salt, key) == <<salt, key>>

(* GenerateFromPassword of the x/crypto releases that refuse a password of  *)
(* more than 72 bytes (ErrPasswordTooLong), on which NewPassword panics;    *)
(* the earlier releases hash it like any other.  The build does not pin a   *)
(* release.                                                                 *)
MayPanic(password) == Len(password) > BcryptKeyBytes

(* NewPassword: the digest holds the salt drawn and the hash.               *)
NewPassword(salt, password) ==
    [salt |-> salt, hash |-> Bcrypt(salt, KeyStream(password))]

(* A comparison that checks the salt of the digest and not the password.    *)
CompareAcceptsAll(p, password) == p.hash[1] = p.salt

(* Password.Compare: CompareHashAndPassword hashes the password with the    *)
(* salt of the digest and compares the two hashes.                          *)
Compare(p, password) == p.hash = Bcrypt(p.salt, KeyStream(password))

(* TestPassword, for any two plaintexts: passwd := NewPassword(password),   *)
(* then passwd.Compare(tried).                                              *)
TestPassword(salt, password, tried) ==
    \E panics \in (IF MayPanic(password) THEN {TRUE, FALSE} ELSE {FALSE}) :
        /\ last' = Result("TestPassword", NoGroup, EmptyId, EmptyId, NoGroup,
                          IF panics THEN "panic" ELSE Nil,
                          [password |-> password, tried |-> tried,
                           ok |-> ~panics /\ Compare(NewPassword(salt, password), tried)])
        /\ UNCHANGED <<devices, events, places, users, sessions, view>>

(* The User objects of a caller that sets Password to NewPassword of        *)
(* "secret1" or of "wrong".                                                 *)
PasswordUserInputs ==
    [login : UserIds, groupId : {"g1"}, name : Names,
     password : {NewPassword(salt, password) :
                    salt \in Salts, password \in {Secret1, Wrong}}]

(* ------------------------------------------------------------------------ *)
(* Specifications                                                           *)
(* ------------------------------------------------------------------------ *)
(* InitDB over an empty database.  The methods of one repository touch one  *)
(* collection only, so a behaviour of Spec exercises one repository.        *)
Views == {{"Users"}, {"Devices"}, {"Events"}, {"Places"}}

Init ==
    /\ devices = [id \in DeviceIds |-> None]
    /\ events = [id \in EventIds |-> None]
    /\ places = [id \in PlaceIds |-> None]
    /\ users = [id \in UserIds |-> None]
    /\ sessions = 0
    /\ view \in Views
    /\ last = Result("InitDB", NoGroup, EmptyId, EmptyId, NoGroup, Nil, None)

Next ==
    \/ "Users" \in view /\ UsersNext(UserInputs)
    \/ "Devices" \in view /\ DevicesNext(DeviceInputs)
    \/ "Events" \in view /\ EventsNext(EventTemplates)
    \/ "Places" \in view /\ PlacesNext(PlaceInputs)

Spec == Init /\ [][Next]_vars

(* The repositories keyed by a string id the caller may supply: Users,      *)
(* Devices and Places.                                                      *)
InitKeyed == Init /\ view \in {{"Users"}, {"Devices"}, {"Places"}}

NextKeyed ==
    \/ "Users" \in view /\ UsersNext(UserInputs)
    \/ "Devices" \in view /\ DevicesNext(DeviceInputs)
    \/ "Places" \in view /\ PlacesNext(PlaceInputs)

SpecKeyed == InitKeyed /\ [][NextKeyed]_vars

(* The Users repository with bcrypt digests as passwords, and the password  *)
(* test.                                                                    *)
InitPassword == Init /\ view = {"Users"}

NextPassword ==
    \/ UsersNext(PasswordUserInputs)
    \/ \E salt \in Salts, password \in Plaintexts, tried \in Plaintexts :
          TestPassword(salt, password, tried)

SpecPassword == InitPassword /\ [][NextPassword]_vars

(* A caller that uses the Devices and the Events repository together: it    *)
(* registers and reassigns devices that have a password and stores events   *)
(* that carry a time and nothing else.                                      *)
ReassignDeviceInputs ==
    {d \in DeviceInputs : d.password # NoPassword /\ d.groupId = NoGroup}
ReassignEventTemplates == {<<EmptyId, NoGroup, 1>>}

InitReassign ==
    /\ devices = [id \in DeviceIds |-> None]
    /\ events = [id \in EventIds |-> None]
    /\ places = [id \in PlaceIds |-> None]
    /\ users = [id \in UserIds |-> None]
    /\ sessions = 0
    /\ view = {"Devices", "Events"}
    /\ last = Result("InitDB", NoGroup, EmptyId, EmptyId, NoGroup, Nil, None)

NextReassign ==
    \/ DevicesNext(ReassignDeviceInputs)
    \/ EventsNext(ReassignEventTemplates)

SpecReassign == InitReassign /\ [][NextReassign]_vars

(* ------------------------------------------------------------------------ *)
(* Properties                                                               *)
(* ------------------------------------------------------------------------ *)
EmptyDevices == [id \in DeviceIds |-> None]
EmptyEvents == [id \in EventIds |-> None]
EmptyPlaces == [id \in PlaceIds |-> None]

(* A Get of a record that is stored under another group than the one asked  *)
(* for returns what the same Get returns on a collection that never held    *)
(* the id: ErrNotFound and an empty object.                                 *)
CrossGroupGetIsNotFound ==
    /\ (last.op = "Devices.Get" /\ StoredGroup(devices, last.id) # last.group)
          => /\ last.err = ErrNotFound
             /\ last.ret = ZeroDevice
             /\ last.ret = DevicesGetOn(EmptyDevices, last.group, last.id).device
    /\ (last.op = "Places.Get" /\ StoredGroup(places, last.id) # last.group)
          => /\ last.err = ErrNotFound
             /\ last.ret = ZeroPlace
             /\ last.ret = PlacesGetOn(EmptyPlaces, last.group, last.id).place
    /\ (last.op = "Events.Get" /\ IsObjectIdHex(last.id)
            /\ StoredGroup(events, last.id) # last.group)
          => /\ last.err = ErrNotFound
             /\ last.ret = ZeroEvent
             /\ last.ret = EventsGetOn(EmptyEvents, last.group, last.device, last.id).event

(* A step after which Get(g, x) finds a record it did not find before is a  *)
(* Create or an Update of x called with group g.                            *)
GetFindsOnlyAfterWriteUnderGroup ==
    \A g \in Groups :
        /\ \A x \in DeviceIds :
              (DevicesGetOn(devices', g, x).err = Nil
                  /\ DevicesGetOn(devices, g, x).err # Nil)
                => /\ last'.op \in {"Devices.Create", "Devices.Update"}
                   /\ last'.group = g /\ last'.id = x /\ last'.err = Nil
        /\ \A x \in PlaceIds :
              (PlacesGetOn(places', g, x).err = Nil
                  /\ PlacesGetOn(places, g, x).err # Nil)
                => /\ last'.op \in {"Places.Create", "Places.Update"}
                   /\ last'.group = g /\ last'.id = x /\ last'.err = Nil
        /\ \A x \in EventIds, d \in DeviceIds :
              (EventsGetOn(events', g, d, x).err = Nil
                  /\ EventsGetOn(events, g, d, x).err # Nil)
                => /\ last'.group = g /\ last'.device = d
                   /\ \/ last'.op = "Events.Update" /\ last'.id = x
                      \/ /\ last'.op = "Events.Create"
                         /\ \E i \in DOMAIN last'.ret : last'.ret[i] = x

(* C1: for Devices, Places and Events, get(G2, X) of a record created under *)
(* G1 # G2 returns NotFound, the same outcome as for an id never stored,    *)
(* as long as X is not re-created or updated under G2.                      *)
C1_GetIsGroupScoped ==
    []CrossGroupGetIsNotFound /\ [][GetFindsOnlyAfterWriteUnderGroup]_vars

(* A Devices.Get under g2 of a device stored under g1 came back NotFound.   *)
C1_Witness ==
    /\ last.op = "Devices.Get" /\ last.group = "g2"
    /\ StoredGroup(devices, last.id) = "g1"
    /\ last.err = ErrNotFound

(* C3: for Devices, Places and Events, the record a successful              *)
(* create(G, entity) stores has groupID = G, whatever GroupID the entity    *)
(* object carried on entry.                                                 *)
C3_CreateStoresCallerGroup ==
    /\ (last.op = "Devices.Create" /\ last.err = Nil)
          => StoredGroup(devices, last.id) = last.group
    /\ (last.op = "Places.Create" /\ last.err = Nil)
          => StoredGroup(places, last.id) = last.group
    /\ (last.op = "Events.Create" /\ last.err = Nil)
          => \A i \in DOMAIN last.ret :
                StoredGroup(events, last.ret[i]) = last.group

(* A Devices.Create succeeded for an object that carried another group.     *)
C3_Witness ==
    /\ last.op = "Devices.Create" /\ last.err = Nil
    /\ last.carried \in Groups /\ last.carried # last.group
    /\ StoredGroup(devices, last.id) = last.group

(* C2 as stated: for Devices and Places, update(G2, entity with id X) does  *)
(* not change a record X that is stored under another group G1.             *)
C2_UpdateLeavesOtherGroupsRecord ==
    /\ (last.op = "Devices.Update" /\ last.was \in Groups /\ last.was # last.group)
          => StoredGroup(devices, last.id) = last.was
    /\ (last.op = "Places.Update" /\ last.was \in Groups /\ last.was # last.group)
          => StoredGroup(places, last.id) = last.was

(* C2, amended: for Devices and Places, update(G, entity with id X) selects *)
(* the record by its id alone: whenever a record X is stored (and, for a    *)
(* Place, the geometry is valid) the call succeeds and X is stored under G  *)
(* afterwards, also when it was stored under another group before; it fails *)
(* with NotFound only when no record X is stored.                           *)
C2_UpdateRebindsToCallerGroup ==
    /\ last.op = "Devices.Update"
          => IF last.was = NoRecord
             THEN last.err = ErrNotFound /\ ~Has(devices, last.id)
             ELSE last.err = Nil /\ StoredGroup(devices, last.id) = last.group
    /\ (last.op = "Places.Update" /\ last.err # ErrBadPlaceData)
          => IF last.was = NoRecord
             THEN last.err = ErrNotFound /\ ~Has(places, last.id)
             ELSE last.err = Nil /\ StoredGroup(places, last.id) = last.group

(* A Devices.Update under g2 succeeded on a device stored under g1.         *)
C2_Witness ==
    /\ last.op = "Devices.Update" /\ last.err = Nil
    /\ last.was = "g1" /\ last.group = "g2"
    /\ StoredGroup(devices, last.id) = "g2"

(* C4 as stated: Users create, update and delete take the caller's group;   *)
(* the stored groupID is that group, and a delete of a login stored under   *)
(* another group returns NotFound and leaves the user stored.               *)
C4_UsersAreGroupScoped ==
    /\ (last.op \in {"Users.Create", "Users.Update"} /\ last.err = Nil)
          => StoredGroup(users, last.id) = last.group
    /\ (last.op = "Users.Delete" /\ last.was # NoRecord /\ last.was # last.group)
          => last.err = ErrNotFound /\ Has(users, last.id)

(* C4, amended: of the Users methods only list takes a group.  Create and   *)
(* update take the User alone and store the groupID field of that object;   *)
(* delete takes the login alone and removes the user with that login        *)
(* whatever group it is stored under, NotFound meaning that no user has     *)
(* the login.                                                               *)
C4_UsersWritesAreKeyedByLogin ==
    /\ (last.op \in {"Users.Create", "Users.Update"} /\ last.err = Nil)
          => StoredGroup(users, last.id) = last.carried
    /\ last.op = "Users.Delete"
          => /\ ~Has(users, last.id)
             /\ last.err = IF last.was = NoRecord THEN ErrNotFound ELSE Nil

(* A caller of group g2 deleted a user stored under g1.                     *)
C4_Witness ==
    /\ last.op = "Users.Delete" /\ last.err = Nil
    /\ last.group = "g2" /\ last.was = "g1"
    /\ ~Has(users, last.id)

(* What a Delete step of Devices or Places does to its collection.          *)
DeleteStep(op, coll, collAfter) ==
    last'.op = op =>
        IF StoredGroup(coll, last'.id) = last'.group
        THEN /\ last'.err = Nil
             /\ ~Has(collAfter, last'.id)
             /\ \A other \in DOMAIN coll \ {last'.id} : collAfter[other] = coll[other]
        ELSE /\ last'.err = ErrNotFound
             /\ collAfter = coll

(* C5: for Devices and Places, delete(G2, X) of a record stored under       *)
(* another group returns NotFound and changes nothing; delete(G1, X) of a   *)
(* record stored under G1 removes that record and no other, and get(G1, X)  *)
(* is NotFound afterwards.                                                  *)
C5_DeleteIsGroupScoped ==
    [][/\ DeleteStep("Devices.Delete", devices, devices')
       /\ DeleteStep("Places.Delete", places, places')
       /\ (last'.op = "Devices.Delete" /\ last'.err = Nil)
             => DevicesGetOn(devices', last'.group, last'.id).err = ErrNotFound
       /\ (last'.op = "Places.Delete" /\ last'.err = Nil)
             => PlacesGetOn(places', last'.group, last'.id).err = ErrNotFound]_vars

(* A Devices.Delete under g2 was refused for a device stored under g1 while *)
(* another device is stored as well.                                        *)
C5_Witness ==
    /\ last.op = "Devices.Delete" /\ last.err = ErrNotFound
    /\ last.group = "g2" /\ last.was = "g1"
    /\ \A id \in DeviceIds : Has(devices, id)

(* C6: list(G) returns the stored records of group G and no other (for      *)
(* Events, of group G and device D), each with the fields of its stored     *)
(* document, and the empty sequence when none matches.                      *)
C6_ListReturnsTheGroup ==
    /\ last.op = "Devices.List"
          => /\ {r.id : r \in last.ret}
                  = {i \in DeviceIds : StoredGroup(devices, i) = last.group}
             /\ \A r \in last.ret : /\ r.name = devices[r.id].name
                                    /\ r.type = devices[r.id].type
             /\ Cardinality(last.ret) = Cardinality({r.id : r \in last.ret})
    /\ last.op = "Places.List"
          => /\ {r.id : r \in last.ret}
                  = {i \in PlaceIds : StoredGroup(places, i) = last.group}
             /\ \A r \in last.ret : /\ r.circle = places[r.id].circle
                                    /\ r.polygon = places[r.id].polygon
             /\ Cardinality(last.ret) = Cardinality({r.id : r \in last.ret})
    /\ last.op = "Users.List"
          => /\ {r.login : r \in last.ret}
                  = {i \in UserIds : StoredGroup(users, i) = last.group}
             /\ \A r \in last.ret : r.name = users[r.login].name
             /\ Cardinality(last.ret) = Cardinality({r.login : r \in last.ret})
    /\ last.op = "Events.List"
          => /\ {r.id : r \in last.ret}
                  = {i \in EventIds : /\ StoredGroup(events, i) = last.group
                                      /\ events[i].deviceId = last.device}
             /\ \A r \in last.ret : r.time = events[r.id].time
             /\ Cardinality(last.ret) = Cardinality({r.id : r \in last.ret})

(* An Events.List came back empty although the device has an event under    *)
(* the other group and the group has an event of the other device.          *)
C6_Witness ==
    /\ last.op = "Events.List" /\ last.ret = {}
    /\ \E i \in EventIds : /\ Has(events, i)
                           /\ events[i].deviceId = last.device
                           /\ events[i].groupId # last.group
    /\ \E i \in EventIds : /\ Has(events, i)
                           /\ events[i].deviceId # last.device
                           /\ events[i].groupId = last.group

(* C7: the groupID of a stored Event never changes after the create call    *)
(* that inserted it.                                                        *)
C7_EventGroupNeverChanges ==
    [][\A x \in EventIds :
          (Has(events, x) /\ Has(events', x))
              => events'[x].groupId = events[x].groupId]_vars

(* C8: after Devices.update(g2, device) has moved a device from g1 to g2,   *)
(* an event created for it under g1 is returned by Events.list(g1, d) and   *)
(* not by Events.list(g2, d).                                               *)
C8_ReassignKeepsEventScope ==
    (last.op = "Devices.Update" /\ last.err = Nil /\ last.was # last.group)
        => \A x \in EventIds :
              (Has(events, x) /\ events[x].deviceId = last.id
                  /\ events[x].groupId = last.was)
                => /\ x \in {r.id : r \in EventsListOn(events, last.was, last.id)}
                   /\ x \notin {r.id : r \in EventsListOn(events, last.group, last.id)}

(* A device with an event under g1 has just been moved from g1 to g2.       *)
C8_Witness ==
    /\ last.op = "Devices.Update" /\ last.err = Nil
    /\ last.was = "g1" /\ last.group = "g2"
    /\ StoredGroup(devices, last.id) = "g2"
    /\ \E x \in EventIds : /\ Has(events, x)
                           /\ events[x].deviceId = last.id
                           /\ events[x].groupId = "g1"

(* C9 as stated: the events a create call stores for a device carry the     *)
(* group the device is stored under at that time, so they are not visible   *)
(* under a group the device has left.                                       *)
C9_EventGroupIsDeviceGroup ==
    (last.op = "Events.Create" /\ last.err = Nil /\ Has(devices, last.device))
        => \A i \in DOMAIN last.ret :
              /\ events[last.ret[i]].groupId = devices[last.device].groupId
              /\ \A g \in Groups \ {devices[last.device].groupId} :
                    last.ret[i] \notin {r.id : r \in EventsListOn(events, g, last.device)}

(* C9, amended: the events a create call stores carry the groupId argument  *)
(* of that call and are listed under that group and device only;            *)
(* Events.create does not read the device record, so this holds whatever    *)
(* group the device is stored under and whether it is stored at all.        *)
C9_EventGroupIsCallArgument ==
    (last.op = "Events.Create" /\ last.err = Nil)
        => \A i \in DOMAIN last.ret :
              /\ events[last.ret[i]].deviceId = last.device
              /\ \A g \in Groups :
                    last.ret[i] \in {r.id : r \in EventsListOn(events, g, last.device)}
                        <=> g = last.group

(* Events were created under g1 for a device that is stored under g2.       *)
C9_Witness ==
    /\ last.op = "Events.Create" /\ last.err = Nil
    /\ last.group = "g1"
    /\ StoredGroup(devices, last.device) = "g2"
    /\ \A i \in DOMAIN last.ret : events[last.ret[i]].groupId = "g1"

(* C10: a Place created or updated with both a circle and a polygon is      *)
(* stored with the circle, without polygon, and with the index geometry     *)
(* derived from the circle.                                                 *)
C10_CircleHasPriority ==
    (last.op \in {"Places.Create", "Places.Update"} /\ last.err = Nil
        /\ last.ret.circle # NoShape /\ last.ret.polygon # NoShape)
        => /\ places[last.id].circle = last.ret.circle
           /\ places[last.id].polygon = NoShape
           /\ places[last.id].geo = CircleGeo(last.ret.circle)
           /\ places[last.id].geo # PolygonGeo(last.ret.polygon)

(* A Places.Update that supplied both a circle and a polygon went through.  *)
C10_Witness ==
    /\ last.op = "Places.Update" /\ last.err = Nil
    /\ last.ret.circle # NoShape /\ last.ret.polygon # NoShape
    /\ places[last.id].circle = last.ret.circle

(* C11: a Places create or update that supplies neither a circle nor a      *)
(* polygon fails with ErrBadPlaceData before a session is copied or a store *)
(* primitive is issued: nothing is inserted and the document stored under   *)
(* that id, if any, stays as it was.                                        *)
C11_NoShapeIsRejected ==
    [][(last'.op \in {"Places.Create", "Places.Update"}
           /\ last'.ret.circle = NoShape /\ last'.ret.polygon = NoShape)
          => /\ last'.err = ErrBadPlaceData
             /\ places' = places
             /\ sessions' = sessions]_vars

(* A Places.Update without a shape was refused for a place that is stored.  *)
C11_Witness ==
    /\ last.op = "Places.Update" /\ last.err = ErrBadPlaceData
    /\ last.ret.circle = NoShape /\ last.ret.polygon = NoShape
    /\ Has(places, last.id)

(* C12: every stored Place has exactly one of circle and polygon, and its   *)
(* index geometry is derived from that one: the approximation of the circle *)
(* when the circle is set, the ring of the polygon itself, untransformed,   *)
(* when the polygon is set.                                                 *)
C12_StoredPlaceHasOneShape ==
    /\ \A id \in PlaceIds :
          Has(places, id) =>
             /\ (places[id].circle = NoShape) # (places[id].polygon = NoShape)
             /\ places[id].circle # NoShape
                   => places[id].geo = CircleGeo(places[id].circle)
             /\ places[id].polygon # NoShape
                   => /\ places[id].geo.type = "Polygon"
                      /\ places[id].geo.coordinates = <<places[id].polygon.ring>>
    /\ (last.op \in {"Places.Create", "Places.Update"} /\ last.err = Nil
           /\ last.ret.circle = NoShape)
          => /\ places[last.id].circle = NoShape
             /\ places[last.id].polygon = last.ret.polygon

(* One place is stored with a polygon alone and another with a circle.      *)
C12_Witness ==
    /\ last.op = "Places.Create" /\ last.err = Nil
    /\ last.ret.circle = NoShape /\ last.ret.polygon # NoShape
    /\ places[last.id].polygon = last.ret.polygon
    /\ \E id \in PlaceIds : Has(places, id) /\ places[id].circle # NoShape

(* C13: get and list never return a secret or group-identifying field: no   *)
(* password and no group on a Device or on a User of a list, no group and   *)
(* no index geometry on a Place, no group on an Event; a Device read back   *)
(* under its group has the id, name and type it is stored with.             *)
C13_ReadsOmitSecrets ==
    /\ (last.op = "Devices.Get" /\ last.err = Nil)
          => /\ last.ret.password = NoPassword /\ last.ret.groupId = NoGroup
             /\ last.ret.id = last.id
             /\ last.ret.name = devices[last.id].name
             /\ last.ret.type = devices[last.id].type
    /\ last.op \in {"Devices.List", "DB.DeviceList"}
          => \A r \in last.ret : r.password = NoPassword /\ r.groupId = NoGroup
    /\ last.op = "Users.List"
          => \A r \in last.ret : r.password = NoPassword /\ r.groupId = NoGroup
    /\ (last.op = "Places.Get" /\ last.err = Nil)
          => last.ret.groupId = NoGroup /\ last.ret.geo = NoGeo
    /\ last.op = "Places.List"
          => \A r \in last.ret : r.groupId = NoGroup /\ r.geo = NoGeo
    /\ (last.op = "Events.Get" /\ last.err = Nil)
          => last.ret.groupId = NoGroup
    /\ last.op = "Events.List"
          => \A r \in last.ret : r.groupId = NoGroup

(* C14: Login of Devices and of Users looks the record up by its id alone:  *)
(* when a record with the id is stored, under whatever group, it is         *)
(* returned whole, with its group and its password digest; ErrNotFound is   *)
(* returned only when no record has the id.                                 *)
C14_LoginIsKeyedByIdAlone ==
    /\ last.op = "Devices.Login"
          => IF Has(devices, last.id)
             THEN /\ last.err = Nil
                  /\ last.ret.id = last.id
                  /\ DeviceDoc(last.ret) = devices[last.id]
             ELSE last.err = ErrNotFound
    /\ last.op = "Users.Login"
          => IF Has(users, last.id)
             THEN /\ last.err = Nil
                  /\ last.ret.login = last.id
                  /\ last.ret.groupId = users[last.id].groupId
                  /\ last.ret.name = users[last.id].name
                  /\ last.ret.password = users[last.id].password
             ELSE last.err = ErrNotFound

(* A Users.Login returned a user of group g2 with its digest while a user   *)
(* of group g1 is stored too.                                               *)
C14_Witness ==
    /\ last.op = "Users.Login" /\ last.err = Nil
    /\ last.ret.groupId = "g2" /\ last.ret.password = "h1"
    /\ \E other \in UserIds : StoredGroup(users, other) = "g1"

FitsKey(password) ==
    /\ Len(password) < BcryptKeyBytes
    /\ \A i \in 1..Len(password) : password[i] # 0

C16_DevicesOfGroup ==
    last.op = "Events.Devices"
        => last.ret = {events[i].deviceId :
                          i \in {j \in EventIds : StoredGroup(events, j) = last.group}}

(* C17: the events an Events.Create has stored do not have the zero time:   *)
(* a time that was omitted is replaced by the current server time.          *)
C17_CreatedEventHasTime ==
    (last.op = "Events.Create" /\ last.err = Nil)
        => \A i \in DOMAIN last.ret : events[last.ret[i]].time # ZeroTime

(* C18: every repository method closes the session copy it made before it   *)
(* returns, on every path: between calls no session copy is outstanding.    *)
C18_NoSessionOutstanding == sessions = 0

(* C19 as stated: for Users, Devices, Events and Places an update whose id  *)
(* matches no stored record returns NotFound and creates no record.         *)
C19_UpdateOfMissingIsNotFound ==
    /\ (last.op \in {"Users.Update", "Devices.Update", "Events.Update",
                     "Places.Update"} /\ last.was = NoRecord)
          => last.err = ErrNotFound
    /\ (last.op = "Users.Update" /\ last.was = NoRecord) => ~Has(users, last.id)
    /\ (last.op = "Devices.Update" /\ last.was = NoRecord) => ~Has(devices, last.id)
    /\ (last.op = "Events.Update" /\ last.was = NoRecord) => ~Has(events, last.id)
    /\ (last.op = "Places.Update" /\ last.was = NoRecord) => ~Has(places, last.id)

(* An Update step of one repository on an id that has no stored record.     *)
UpdateOfMissing(op, coll, collAfter, err) ==
    (last'.op = op /\ ~Has(coll, last'.id))
        => last'.err = err /\ collAfter = coll

(* C19, amended: an update never upserts: for Users, Devices, Events and    *)
(* Places an update whose id matches no stored record leaves the store      *)
(* unchanged and returns NotFound, except that a Place with neither circle  *)
(* nor polygon is refused with the validation error before the store is     *)
(* asked.                                                                   *)
C19_UpdateNeverUpserts ==
    [][/\ UpdateOfMissing("Users.Update", users, users', ErrNotFound)
       /\ UpdateOfMissing("Devices.Update", devices, devices', ErrNotFound)
       /\ UpdateOfMissing("Events.Update", events, events', ErrNotFound)
       /\ UpdateOfMissing("Places.Update", places, places',
             IF last'.ret.circle = NoShape /\ last'.ret.polygon = NoShape
             THEN ErrBadPlaceData ELSE ErrNotFound)]_vars

(* An Events.Update of an id that is not stored was refused while another   *)
(* event is stored.                                                         *)
C19_Witness ==
    /\ last.op = "Events.Update" /\ last.err = ErrNotFound
    /\ last.id \in EventIds /\ ~Has(events, last.id)
    /\ \E other \in EventIds : Has(events, other)

(* A Create step of Users or Devices: a key that is stored already gives    *)
(* the duplicate-key error and changes nothing, a new key adds one record.  *)
CreateStep(op, coll, collAfter) ==
    last'.op = op =>
        /\ IF Has(coll, last'.id)
           THEN last'.err = ErrDup /\ collAfter = coll
           ELSE last'.err = Nil /\ Has(collAfter, last'.id)
        /\ \A other \in DOMAIN coll \ {last'.id} : collAfter[other] = coll[other]

(* Each device id is found by Get, and listed, under at most one group,     *)
(* each login is listed under at most one group.                            *)
OneGroupPerKey ==
    /\ \A id \in DeviceIds :
          /\ Cardinality({g \in Groups :
                 DevicesGetOn(devices, g, id).err = Nil}) <= 1
          /\ Cardinality({g \in Groups :
                 \E r \in DevicesListOn(devices, g) : r.id = id}) <= 1
    /\ \A login \in UserIds :
          Cardinality({g \in Groups :
              \E r \in UsersListOn(users, g) : r.login = login}) <= 1

(* C20: logins and device ids are unique over all groups in every reachable *)
(* state: a device is visible under at most one group, and a create whose   *)
(* key is stored already, under whatever group, fails with the duplicate-   *)
(* key error and leaves the stored record as it was.                        *)
C20_KeysAreGloballyUnique ==
    /\ []OneGroupPerKey
    /\ [][/\ CreateStep("Devices.Create", devices, devices')
          /\ CreateStep("Users.Create", users, users')]_vars

(* A Devices.Create under g2 hit the id of a device stored under g1.        *)
C20_Witness ==
    /\ last.op = "Devices.Create" /\ last.err = ErrDup
    /\ last.group = "g2" /\ last.was = "g1"
    /\ StoredGroup(devices, last.id) = "g1"

(* What a step of Events.Create(groupId, deviceId, batch) does: last'.ret   *)
(* holds the ids of the items after the loop.                               *)
BatchIsScopedAndKeyed(groupId, deviceId, batch) ==
    LET ids == last'.ret IN
    /\ DOMAIN ids = DOMAIN batch
    /\ \A i \in DOMAIN batch :
          IF Valid(batch[i].id)
          THEN ids[i] = batch[i].id
          ELSE /\ ~Has(events, ids[i])
               /\ \A j \in DOMAIN batch \ {i} : ids[j] # ids[i]
    /\ \A x \in EventIds :
          events'[x] # events[x]
              => /\ ~Has(events, x)
                 /\ \E i \in DOMAIN batch : ids[i] = x
                 /\ events'[x].groupId = groupId
                 /\ events'[x].deviceId = deviceId
    /\ IF last'.err = Nil
       THEN \A i \in DOMAIN batch :
               /\ Has(events', ids[i])
               /\ events'[ids[i]].time = batch[i].time
       ELSE /\ last'.err = ErrDup
            /\ \E i \in DOMAIN batch :
                  /\ Valid(batch[i].id)
                  /\ ~Has(events', ids[i]) \/ events'[ids[i]] = events[ids[i]]
                        \/ \E j \in 1..(i - 1) : ids[j] = ids[i]

(* C21: Events.Create(G, D, e1..en) stores every item under group G and     *)
(* device D whatever the item carried, keeps a valid id and replaces an     *)
(* invalid one by a fresh id that no other item of the batch and no stored  *)
(* event has, and hands the items to one Insert, whose failure (a duplicate *)
(* of a supplied id) is the one error of the call.                          *)
C21_CreateScopesAndKeysTheBatch ==
    [][last'.op = "Events.Create"
          => \A tmpl \in EventTemplates :
                \A batch \in EventBatches(tmpl) :
                    (Len(batch) = Len(last'.ret)
                        /\ EventsCreate(last'.group, last'.device, batch))
                       => BatchIsScopedAndKeyed(last'.group, last'.device, batch)]_vars

(* A batch of two events that carried group g2 and device 1 was stored      *)
(* under g1 and device 2 with two different ids.                            *)
C21_Witness ==
    /\ last.op = "Events.Create" /\ last.err = Nil
    /\ last.group = "g1" /\ last.device = 2 /\ last.carried = "g2"
    /\ Len(last.ret) = 2 /\ last.ret[1] # last.ret[2]
    /\ \A i \in 1..2 : /\ events[last.ret[i]].groupId = "g1"
                       /\ events[last.ret[i]].deviceId = 2

(* C22: Events.Delete(G, D, id) with the id of an event stored under group  *)
(* G and device D removes that event: a following Events.Get(G, D, id)      *)
(* returns ErrNotFound and Events.List(G, D) does not contain it.           *)
C22_DeleteRemovesTheEvent ==
    [][(last'.op = "Events.Delete" /\ Has(events, last'.id)
           /\ events[last'.id].groupId = last'.group
           /\ events[last'.id].deviceId = last'.device)
          => /\ last'.err = Nil
             /\ ~Has(events', last'.id)
             /\ EventsGetOn(events', last'.group, last'.device, last'.id).err
                   = ErrNotFound
             /\ \A r \in EventsListOn(events', last'.group, last'.device) :
                   r.id # last'.id]_vars

(* C23: when the Device a Devices.Get(G, X) returned is passed to           *)
(* Devices.Update(G, device), the stored password digest of X stays as it   *)
(* was: Devices.Login(X) returns the same digest after the update as before. *)
C23_UpdateOfReadDeviceKeepsDigest ==
    [][(last.op = "Devices.Get" /\ last.err = Nil
           /\ DevicesUpdate(last.group, last.ret))
          => /\ devices'[last.id].password = devices[last.id].password
             /\ DevicesLoginOn(devices', last.id).device.password
                   = DevicesLoginOn(devices, last.id).device.password]_vars

(* The error of a Create step when no record of another group is in its     *)
(* way: the validation error of a Place without a shape, none otherwise.    *)
ErrorWithoutForeignRecord ==
    IF last'.op = "Places.Create"
          /\ last'.ret.circle = NoShape /\ last'.ret.polygon = NoShape
    THEN ErrBadPlaceData
    ELSE Nil

(* C24 as stated: for Devices and Places the outcome of create(G2, entity   *)
(* with id X) is the same whether or not a record with id X is stored under *)
(* another group G1: it is what the call returns on the store without that  *)
(* record.                                                                  *)
C24_CreateHidesForeignIds ==
    [][/\ (last'.op = "Devices.Create"
              /\ StoredGroup(devices, last'.id) \notin {NoRecord, last'.group})
             => /\ last'.err = ErrorWithoutForeignRecord
                /\ DevicesGetOn(devices', last'.group, last'.id).err = Nil
       /\ (last'.op = "Places.Create"
              /\ StoredGroup(places, last'.id) \notin {NoRecord, last'.group})
             => last'.err = ErrorWithoutForeignRecord]_vars

(* A Create step on an id that another group's record holds: the call gets  *)
(* the duplicate-key error (a Place without a shape the validation error),  *)
(* the store stays as it is, and the error is the one the call gets when    *)
(* the record under that id has any other group or other fields.            *)
CreateOnForeignId(op, coll, collAfter, others) ==
    (last'.op = op /\ StoredGroup(coll, last'.id) \notin {NoRecord, last'.group})
        => /\ last'.err = IF ErrorWithoutForeignRecord = Nil
                          THEN ErrDup
                          ELSE ErrorWithoutForeignRecord
           /\ collAfter = coll
           /\ ErrorWithoutForeignRecord = Nil
                 => \A other \in others :
                       Insert([coll EXCEPT ![last'.id] = other], last'.id,
                              coll[last'.id]).err = last'.err

(* C24, amended: Get does not reveal another group's identifiers, Create    *)
(* does: for Devices and Places create(G2, entity with id X) returns the    *)
(* duplicate-key error and stores nothing when a record X exists under      *)
(* another group G1, and succeeds when no record X exists, so the two runs  *)
(* differ.  What the caller learns is that the id is taken, nothing more:   *)
(* the result does not depend on the group or the fields of that record,    *)
(* and Get(G2, X) is NotFound after the failed create as before it.         *)
C24_CreateRevealsTakenIds ==
    [][/\ CreateOnForeignId("Devices.Create", devices, devices',
             {DeviceDoc(DeviceScoped(g, d)) : g \in Groups, d \in DeviceInputs})
       /\ CreateOnForeignId("Places.Create", places, places',
             {PlaceDoc(PlaceScoped(g, prepare(p).place)) :
                 g \in Groups, p \in PlaceInputs})
       /\ (last'.op = "Devices.Create"
              /\ StoredGroup(devices, last'.id) \notin {NoRecord, last'.group})
             => DevicesGetOn(devices', last'.group, last'.id).err = ErrNotFound
       /\ (last'.op = "Places.Create"
              /\ StoredGroup(places, last'.id) \notin {NoRecord, last'.group})
             => PlacesGetOn(places', last'.group, last'.id).err = ErrNotFound]_vars

(* A Places.Create under g2 with a valid shape hit the id of a place of g1. *)
C24_Witness ==
    /\ last.op = "Places.Create" /\ last.err = ErrDup
    /\ last.group = "g2" /\ last.was = "g1"
    /\ StoredGroup(places, last.id) = "g1"
    /\ PlacesGetOn(places, "g2", last.id).err = ErrNotFound
====
